---- MODULE Spec2Model ----
(***************************************************************************)
(* GhostTrail collector: process-lineage walk (collector/lineage.py),      *)
(* event normalisation and validation and the ingestion loop               *)
(* (collector/main.py), incident creation (collector/incidents.py) and the *)
(* text and DOT renderers (collector/lineage.py).                          *)
(***************************************************************************)
EXTENDS Integers, Sequences, FiniteSets, TLC

VARIABLES
    \* ---- build_lineage(pid, max_depth) and the /proc table it reads ----
    ptab,       \* /proc: pid -> [present, ppid]
    startPid,   \* the pid argument of build_lineage
    max_depth,  \* the max_depth argument of build_lineage
    cur,        \* local cur
    depth,      \* local depth
    seen,       \* local seen
    chain,      \* local chain (the returned list once lpc = "done")
    reads,      \* history: the pids whose /proc/<pid> entry was looked up, in order
    lpc,        \* position in build_lineage: "idle", "loop", "stat", "adv", "rev", "done"
    \* ---- normalize_event / validate_event applied to one decoded object ----
    raw,        \* the decoded JSON object
    evt,        \* the event handed to validate_event
    normalized, \* whether evt went through normalize_event
    vr,         \* what validate_event did: a ValidationResult or an exception
    vpc,        \* "idle", "raw", "norm", "done"
    \* ---- main(): the ingestion loop (raw, evt and vr above are its locals) ----
    mpc,        \* "start", "read", "decode", "validate", "write", "count", "incident",
                \* "inc_json", "inc_lineage", "inc_txt", "inc_dot" (in create_incident), "exited"
    out,        \* the output handle: "unopened", "open", "closed"
    good,       \* accepted counter
    bad,        \* dropped counter
    log,        \* the events this run appended to the output file, in order
    incidents,  \* incident directory (named by the clock's second) -> files in it
    line,       \* the line just read from stdin
    nread,      \* lines read so far
    clock,      \* the local time, in seconds
    exitCode,   \* -1 while running, else the process exit status
    inc_dir,    \* create_incident's local inc_dir (the second that names it)
    inc_chain,  \* create_incident's local chain
    nonblank,   \* history: the non-blank lines read so far
    accepted,   \* history: the lines that passed validation, [n, evt] in order
    called,     \* history: the create_incident calls, [n, evt, dir] in order
    exitBy,     \* history: how main() ended: "none", "openfail", "eos",
                \* "interrupt", "validate", "incident"
    \* ---- lineage_to_text / lineage_to_dot applied to a chain ----
    rendered    \* [text, dot] once the chain has been rendered

lvars == <<ptab, startPid, max_depth, cur, depth, seen, chain, reads, lpc>>

vvars == <<raw, evt, normalized, vr, vpc>>

ivars == <<mpc, out, good, bad, log, incidents, line, nread, clock, exitCode,
          inc_dir, inc_chain, nonblank, accepted, called, exitBy>>

vars == <<lvars, vvars, ivars, rendered>>

\* what the actions of one part leave alone
notLineage == <<vvars, ivars, rendered>>
notValidator == <<lvars, ivars, rendered>>
notIngest == <<lvars, normalized, vpc, rendered>>

\* ---------------------------------------------------------------- bounds
\* pids of the modelled process table are 1..MaxPid
MaxPid == 3
\* max_depth arguments are drawn from 0..MaxDepthArg
MaxDepthArg == 3

\* a decoded object differs from a well-formed one in at most MaxDefects keys
MaxDefects == 2
\* the ingestion loop reads at most MaxLines lines from stdin
MaxLines == 2
\* the clock runs over the seconds 0..MaxClock
MaxClock == 1
\* a rendered chain holds at most MaxChainLen records, of pids 1..MaxRenderPid
MaxChainLen == 2
MaxRenderPid == 2

Pids == 1..MaxPid

\* --------------------------------------------------------------- main.py
\* A JSON value as json.loads returns it: its Python type, the text of a str
\* (a sequence of atoms: one blank character " ", or a whole token), the
\* number of an int, bool (True is 1) or float (its integer part; the floats
\* modelled have a fractional part).
JsonVal(t, s, n) == [t |-> t, s |-> s, n |-> n]
Absent == JsonVal("absent", <<>>, 0)
Str(s) == JsonVal("str", s, 0)
IntV(n) == JsonVal("int", <<>>, n)
FloatV(n) == JsonVal("float", <<>>, n)
BoolV(b) == JsonVal("bool", <<>>, IF b THEN 1 ELSE 0)
Null == JsonVal("null", <<>>, 0)
ListV == JsonVal("list", <<>>, 0)
DictV == JsonVal("dict", <<>>, 0)

\* validate_event line 61 (the required keys, in order), then the optional
\* keys of lines 89..92, then a key the schema does not know
required == <<"ts", "event_type", "pid", "ppid", "uid", "comm", "exe", "target", "source">>
Fields == {required[i] : i \in 1..Len(required)} \cup {"tags", "meta", "extra"}

\* k in evt
Has(e, k) == e[k].t # "absent"

\* lines 14..15
ALLOWED_EVENT_TYPES == {<<"file_open">>, <<"exec">>}
ALLOWED_SOURCES == {<<"stdin">>, <<"ebpf">>}

\* x in <a set of str>: hashing a list or a dict raises TypeError; a value of
\* another type is equal to no str
Unhashable(x) == x.t \in {"list", "dict"}
InStrSet(x, S) == x.t = "str" /\ x.s \in S

\* str.strip(): leading and trailing blanks removed
RECURSIVE LStrip(_)
LStrip(s) == IF s # <<>> /\ Head(s) = " " THEN LStrip(Tail(s)) ELSE s
RECURSIVE RStrip(_)
RStrip(s) == IF s # <<>> /\ s[Len(s)] = " " THEN RStrip(SubSeq(s, 1, Len(s) - 1)) ELSE s
Strip(s) == RStrip(LStrip(s))

\* str.replace(a, b), atom for atom
StrReplace(s, a, b) == [i \in 1..Len(s) |-> IF s[i] = a THEN b ELSE s[i]]

\* line 28..29
is_non_empty_str(x) == x.t = "str" /\ Len(Strip(x.s)) > 0

\* line 32..33: isinstance(x, int) holds of a bool too, and True >= 0
is_int_like(x) == x.t \in {"int", "bool"} /\ x.n >= 0

\* datetime.fromisoformat: a date-time "DT", an optional fraction "FRAC", an
\* optional offset "+00:00", and nothing else
fromisoformat_ok(s) ==
    s \in {<<"DT">>, <<"DT", "FRAC">>, <<"DT", "+00:00">>, <<"DT", "FRAC", "+00:00">>}

\* lines 36..50
parse_iso8601(ts) ==
    /\ ts.t = "str"
    /\ IF ts.s # <<>> /\ ts.s[Len(ts.s)] = "Z"
       THEN fromisoformat_ok(StrReplace(ts.s, "Z", "+00:00"))
       ELSE fromisoformat_ok(ts.s)

\* lines 23..24: isoformat() of an aware UTC datetime (the fraction is left out
\* when the microsecond is 0), "+00:00" replaced by "Z"
utc_now_iso(frac) ==
    StrReplace(IF frac THEN <<"DT", "FRAC", "+00:00">> ELSE <<"DT", "+00:00">>, "+00:00", "Z")

\* ValidationResult(True), ValidationResult(False, error) and an exception
\* leaving validate_event
Ok == [kind |-> "ok", what |-> "", field |-> ""]
Rejected(what, field) == [kind |-> "rejected", what |-> what, field |-> field]
Raised(field) == [kind |-> "raised", what |-> "TypeError", field |-> field]
NoResult == [kind |-> "none", what |-> "", field |-> ""]

\* a for loop over keys that returns at the first one failing its test: the
\* index of the first FALSE in the sequence of test results, 0 if there is none
FirstFailing(oks) ==
    IF \E i \in 1..Len(oks) : ~oks[i]
    THEN CHOOSE i \in 1..Len(oks) : ~oks[i] /\ \A j \in 1..(i - 1) : oks[j]
    ELSE 0

\* lines 74..82: the keys of the two type loops
IntKeys == <<"pid", "ppid", "uid">>
StrKeys == <<"comm", "exe", "target">>

\* lines 59..94
validate_event(e) ==
    LET missing == FirstFailing([i \in 1..Len(required) |-> Has(e, required[i])])
        badint == FirstFailing([i \in 1..Len(IntKeys) |-> is_int_like(e[IntKeys[i]])])
        badstr == FirstFailing([i \in 1..Len(StrKeys) |-> is_non_empty_str(e[StrKeys[i]])])
    IN  IF missing # 0 THEN Rejected("Missing required field", required[missing])
        ELSE IF ~parse_iso8601(e["ts"]) THEN Rejected("Invalid", "ts")
        ELSE IF Unhashable(e["event_type"]) THEN Raised("event_type")
        ELSE IF ~InStrSet(e["event_type"], ALLOWED_EVENT_TYPES) THEN Rejected("Invalid", "event_type")
        ELSE IF badint # 0 THEN Rejected("Invalid", IntKeys[badint])
        ELSE IF badstr # 0 THEN Rejected("Invalid", StrKeys[badstr])
        ELSE IF Unhashable(e["source"]) THEN Raised("source")
        ELSE IF ~InStrSet(e["source"], ALLOWED_SOURCES) THEN Rejected("Invalid", "source")
        ELSE IF Has(e, "tags") /\ e["tags"].t # "list" THEN Rejected("Invalid", "tags")
        ELSE IF Has(e, "meta") /\ e["meta"].t # "dict" THEN Rejected("Invalid", "meta")
        ELSE Ok

\* lines 97..109 (faulty variant: a field is filled only when its key is
\* missing, not when it is blank)
normalize_eventKnownOnly(r, frac) ==
    [k \in Fields |->
        IF k = "ts" /\ (~Has(r, "ts") \/ ~is_non_empty_str(r["ts"])) THEN Str(utc_now_iso(frac))
        ELSE IF k = "source" /\ (~Has(r, "source") \/ ~is_non_empty_str(r["source"])) THEN Str(<<"stdin">>)
        ELSE IF k = "extra" THEN Absent
        ELSE r[k]]
normalize_eventMissingOnly(r, frac) ==
    [k \in Fields |->
        IF k = "ts" /\ ~Has(r, "ts") THEN Str(utc_now_iso(frac))
        ELSE IF k = "source" /\ ~Has(r, "source") THEN Str(<<"stdin">>)
        ELSE r[k]]
normalize_event(r, frac) ==
    [k \in Fields |->
        IF k = "ts" /\ (~Has(r, "ts") \/ ~is_non_empty_str(r["ts"])) THEN Str(utc_now_iso(frac))
        ELSE IF k = "source" /\ (~Has(r, "source") \/ ~is_non_empty_str(r["source"])) THEN Str(<<"stdin">>)
        ELSE r[k]]

\* The decoded objects: a well-formed event ...
BaseEvent ==
    [k \in Fields |->
        CASE k = "ts" -> Str(<<"DT", "Z">>)
          [] k = "event_type" -> Str(<<"file_open">>)
          [] k \in {"pid", "ppid", "uid"} -> IntV(1)
          [] k \in {"comm", "exe", "target"} -> Str(<<"x">>)
          [] k = "source" -> Str(<<"stdin">>)
          [] k = "tags" -> ListV
          [] k = "meta" -> DictV
          [] OTHER -> Absent]

\* ... the values of every JSON type a key may carry instead (or be missing) ...
GenericVals ==
    {Absent, Str(<<>>), Str(<<" ">>), Str(<<"x">>), IntV(-1), IntV(1), FloatV(1),
     BoolV(TRUE), Null, ListV, DictV}

\* ... and per key the other values that matter to its check (the optional
\* keys are tested for their type alone, the unknown key not at all)
FieldVals(k) ==
    CASE k = "ts" -> GenericVals \cup
                     {Str(<<"DT", "Z">>), Str(<<"DT", "FRAC", "Z">>), Str(<<"DT", "+00:00">>),
                      Str(<<"DT">>), Str(<<"DT", "Z", "Z">>)}
      [] k = "event_type" -> GenericVals \cup {Str(<<"file_open">>), Str(<<"exec">>)}
      [] k \in {"pid", "ppid", "uid"} -> GenericVals \cup {IntV(0)}
      [] k \in {"comm", "exe", "target"} -> GenericVals
      [] k = "source" -> GenericVals \cup {Str(<<"stdin">>), Str(<<"ebpf">>)}
      [] k \in {"tags", "meta"} -> {Absent, Str(<<"x">>), Null, ListV, DictV}
      [] OTHER -> {Absent, Str(<<"x">>), IntV(1)}

\* the keys in which object r differs from the well-formed one
Defects(r) == {k \in Fields : r[k] # BaseEvent[k]}

\* a local not assigned yet, a file not written
Unset == <<>>

\* No object decoded yet.
ValidatorIdle ==
    /\ raw = Unset
    /\ evt = Unset
    /\ normalized = FALSE
    /\ vr = NoResult
    /\ vpc = "idle"

\* main() not started: nothing opened, counted, logged or created.
NoFile == [st |-> "none", data |-> Unset]
NoIncident == [made |-> FALSE, json |-> NoFile, txt |-> NoFile, dot |-> NoFile]
BlankLine == [kind |-> "blank", obj |-> Unset]
IngestIdle ==
    /\ mpc = "start"
    /\ out = "unopened"
    /\ good = 0
    /\ bad = 0
    /\ log = <<>>
    /\ incidents = [d \in 0..MaxClock |-> NoIncident]
    /\ line = Unset
    /\ nread = 0
    /\ clock = 0
    /\ exitCode = -1
    /\ inc_dir = 0
    /\ inc_chain = <<>>
    /\ nonblank = 0
    /\ accepted = <<>>
    /\ called = <<>>
    /\ exitBy = "none"

\* main() is not part of the run at hand.
IngestOff ==
    /\ mpc = "off"
    /\ out = "unopened"
    /\ good = 0
    /\ bad = 0
    /\ log = <<>>
    /\ incidents = Unset
    /\ line = Unset
    /\ nread = 0
    /\ clock = 0
    /\ exitCode = -1
    /\ inc_dir = 0
    /\ inc_chain = <<>>
    /\ nonblank = 0
    /\ accepted = <<>>
    /\ called = <<>>
    /\ exitBy = "none"

\* ------------------------------------------------------------ lineage.py
\* One /proc/<pid> directory: it exists or not, and the ppid field of its stat
\* file. A directory that is gone has no stat file to read.
NoProc == [present |-> FALSE, ppid |-> -1]
ProcEntries == {NoProc} \cup [present : {TRUE}, ppid : 0..MaxPid]

ProcNode(pid, ppid) == [pid |-> pid, ppid |-> ppid]

\* _read_ppid: "" (and so -1) when the file cannot be read, else the parsed field
_read_ppid(pid, tab) == IF tab[pid].present THEN tab[pid].ppid ELSE -1

\* get_proc_node, line 82..85: None for pid <= 0 or a missing /proc/<pid>
ProcDirMissing(pid, tab) == pid <= 0 \/ ~tab[pid].present

\* get_proc_node, line 87..100: the node built from the parsed ppid, the
\* sentinel -1 normalised to 0 (uid, comm, exe and cmdline are carried along
\* and take no part in the walk)
NodeOf(pid, ppid) == ProcNode(pid, IF ppid >= 0 THEN ppid ELSE 0)

\* line 110: cur = pid (faulty variant: a non-positive pid taken for pid 1)
StartCurClamped(pid) == IF pid > 0 THEN pid ELSE 1
StartCur(pid) == pid

\* line 112: the while condition (faulty variants: depth <= max_depth; no
\* cycle guard)
LoopCondOffByOne(c, d, md, s) == c > 0 /\ d <= md /\ c \notin s
LoopCondNoSeen(c, d, md, s) == c > 0 /\ d < md
LoopCond(c, d, md, s) == c > 0 /\ d < md /\ c \notin s

\* line 120: the walk ends at a root, an unknown parent or a self-parent
\* (faulty variant: at any parent whose pid is not below the node's)
IsRootOrOlder(node) == node.ppid <= 0 \/ node.ppid >= node.pid
IsRoot(node) == node.ppid <= 0 \/ node.ppid = node.pid

\* line 123: cur = node.ppid, the parent recorded in the node (faulty variant:
\* the process table is asked again)
NextCurReread(node, tab) == IF _read_ppid(node.pid, tab) >= 0 THEN _read_ppid(node.pid, tab) ELSE 0
NextCur(node, tab) == node.ppid

\* line 126: chain.reverse() (faulty variant: the list is left as built)
ReverseForgotten(s) == s
Reverse(s) == [i \in 1..Len(s) |-> s[Len(s) + 1 - i]]

\* No build_lineage call in progress, no process in the table.
LineageIdle ==
    /\ ptab = [p \in Pids |-> NoProc]
    /\ startPid = 0
    /\ max_depth = 0
    /\ cur = 0
    /\ depth = 0
    /\ seen = {}
    /\ chain = <<>>
    /\ reads = <<>>
    /\ lpc = "idle"
    /\ rendered = <<>>

\* The pid arguments: a negative one, zero and a positive one. The code
\* compares pids with 0 and with each other only, so the positive one is pid 1
\* without loss of generality (the table over it is arbitrary).
StartPids == {-1, 0, 1}

\* The state before build_lineage is called: any process table, any
\* arguments.
InitLineage ==
    /\ ptab \in [Pids -> ProcEntries]
    /\ startPid \in StartPids
    /\ max_depth \in 0..MaxDepthArg
    /\ cur = 0
    /\ depth = 0
    /\ seen = {}
    /\ chain = <<>>
    /\ reads = <<>>
    /\ lpc = "idle"
    /\ rendered = <<>>
    /\ ValidatorIdle
    /\ IngestOff

\* lines 107..111
Call ==
    /\ lpc = "idle"
    /\ chain' = <<>>
    /\ seen' = {}
    /\ cur' = StartCur(startPid)
    /\ depth' = 0
    /\ lpc' = "loop"
    /\ UNCHANGED <<ptab, startPid, max_depth, reads>>
    /\ UNCHANGED notLineage

\* lines 112..117 with get_proc_node's lines 82..85: the loop test, seen.add
\* and the look-up of /proc/<cur>
LoopTest ==
    /\ lpc = "loop"
    /\ IF LoopCond(cur, depth, max_depth, seen)
       THEN /\ seen' = seen \cup {cur}
            /\ reads' = IF cur > 0 THEN Append(reads, cur) ELSE reads
            /\ lpc' = IF ProcDirMissing(cur, ptab) THEN "rev" ELSE "stat"
       ELSE /\ lpc' = "rev"
            /\ UNCHANGED <<seen, reads>>
    /\ UNCHANGED <<ptab, startPid, max_depth, cur, depth, chain>>
    /\ UNCHANGED notLineage

\* get_proc_node's lines 87..100, then line 119: the stat file is read (after
\* the directory test, so the entry may be gone by now) and the node appended
ReadStat ==
    /\ lpc = "stat"
    /\ chain' = Append(chain, NodeOf(cur, _read_ppid(cur, ptab)))
    /\ lpc' = "adv"
    /\ UNCHANGED <<ptab, startPid, max_depth, cur, depth, seen, reads>>
    /\ UNCHANGED notLineage

\* lines 120..124: stop at a root, else move to the recorded parent
Advance ==
    /\ lpc = "adv"
    /\ LET node == chain[Len(chain)] IN
       IF IsRoot(node)
       THEN /\ lpc' = "rev"
            /\ UNCHANGED <<cur, depth>>
       ELSE /\ cur' = NextCur(node, ptab)
            /\ depth' = depth + 1
            /\ lpc' = "loop"
    /\ UNCHANGED <<ptab, startPid, max_depth, seen, chain, reads>>
    /\ UNCHANGED notLineage

\* lines 126..127
Return ==
    /\ lpc = "rev"
    /\ chain' = Reverse(chain)
    /\ lpc' = "done"
    /\ UNCHANGED <<ptab, startPid, max_depth, cur, depth, seen, reads>>
    /\ UNCHANGED notLineage

\* The rest of the host: between two reads of a call any process may exit,
\* appear, be re-parented, or have its stat file become unreadable.
ProcTableChange ==
    /\ lpc \in {"loop", "stat", "adv"}
    /\ \E p \in Pids, e \in ProcEntries :
          /\ e # ptab[p]
          /\ ptab' = [ptab EXCEPT ![p] = e]
    /\ UNCHANGED <<startPid, max_depth, cur, depth, seen, chain, reads, lpc>>
    /\ UNCHANGED notLineage

Walk == Call \/ LoopTest \/ ReadStat \/ Advance \/ Return

NextLineage == Call \/ LoopTest \/ ReadStat \/ Advance \/ Return \/ ProcTableChange

SpecLineage == InitLineage /\ [][NextLineage]_vars

\* The walk is the program's own straight-line code: it keeps running.
LiveLineage == SpecLineage /\ WF_vars(Walk)

\* ------------------------------------------- lineage.py: the two renderers
\* A ProcNode with all six fields (lines 9..16); comm, exe and cmdline are
\* texts, sequences of characters
FullNode(pid, ppid, uid, comm, exe, cmdline) ==
    [pid |-> pid, ppid |-> ppid, uid |-> uid, comm |-> comm, exe |-> exe, cmdline |-> cmdline]

\* line 146: cmd[:120]
LabelMax == 120
Take(s, n) == SubSeq(s, 1, IF Len(s) < n THEN Len(s) ELSE n)

\* lines 133 and 145: n.cmdline if n.cmdline else n.comm
CmdOrComm(n) == IF n.cmdline # <<>> THEN n.cmdline ELSE n.comm

\* lines 144..146: the label of a node; the double quotes of cmd are replaced,
\* n.comm is put in as it is
label(n) ==
    <<ToString(n.pid), "\\n">> \o n.comm \o <<"\\n", "uid=", ToString(n.uid), "\\n">>
        \o Take(StrReplace(CmdOrComm(n), "\"", "'"), LabelMax)

\* The lines of the DOT text: a fixed line, a node statement
\*   "<id>" [label="<label>"];
\* or an edge statement
\*   "<id>" -> "<to>";
DotLine(s) == [kind |-> "line", id |-> "", to |-> "", label |-> <<s>>]
DotNode(n) == [kind |-> "node", id |-> ToString(n.pid), to |-> "", label |-> label(n)]
DotEdge(parent, child) ==
    [kind |-> "edge", id |-> ToString(parent.pid), to |-> ToString(child.pid), label |-> <<>>]

\* lines 148..165 (faulty variant: the edges drawn child to parent)
lineage_to_dotEdgesReversed(c) ==
    <<DotLine("digraph lineage {"), DotLine("  rankdir=\"LR\";"), DotLine("  node [shape=\"box\"];")>>
        \o [i \in 1..Len(c) |-> DotNode(c[i])]
        \o [i \in 1..(Len(c) - 1) |-> DotEdge(c[i + 1], c[i])]
        \o <<DotLine("}")>>
lineage_to_dot(c) ==
    <<DotLine("digraph lineage {"), DotLine("  rankdir=\"LR\";"), DotLine("  node [shape=\"box\"];")>>
        \o [i \in 1..Len(c) |-> DotNode(c[i])]
        \o [i \in 1..(Len(c) - 1) |-> DotEdge(c[i], c[i + 1])]
        \o <<DotLine("}")>>

\* lines 130..137: one line per record, each ended by a newline; "" for no
\* record
lineage_to_text(c) ==
    [i \in 1..Len(c) |->
        [pid |-> c[i].pid, ppid |-> c[i].ppid, uid |-> c[i].uid, comm |-> c[i].comm,
         exe |-> c[i].exe, cmdline |-> CmdOrComm(c[i])]]

\* Nothing rendered.
RenderIdle == rendered = Unset

\* The chains handed to the renderers: up to MaxChainLen records, of pids
\* 1..MaxRenderPid, with names and command lines that are empty, plain, or
\* hold blanks, double quotes and single quotes.
RenderTexts == {<<>>, <<"a">>, <<"a", " ", "\"", "b", "\"">>}
RenderNodes ==
    {FullNode(p, 0, 0, cm, <<"/", "a">>, cl) :
        p \in 1..MaxRenderPid, cm \in RenderTexts, cl \in RenderTexts \cup {<<"'">>}}
RenderChains == UNION {[1..n -> RenderNodes] : n \in 0..MaxChainLen}

InitRender ==
    /\ chain \in RenderChains
    /\ lpc = "done"
    /\ ptab = [p \in Pids |-> NoProc]
    /\ startPid = 0
    /\ max_depth = 0
    /\ cur = 0
    /\ depth = 0
    /\ seen = {}
    /\ reads = <<>>
    /\ RenderIdle
    /\ ValidatorIdle
    /\ IngestOff

\* lineage_to_text(chain) and lineage_to_dot(chain), as create_incident and
\* the CLI call them on a built chain
Render ==
    /\ rendered = Unset
    /\ rendered' = [text |-> lineage_to_text(chain), dot |-> lineage_to_dot(chain)]
    /\ UNCHANGED <<lvars, vvars, ivars>>

NextRender == Render

SpecRender == InitRender /\ [][NextRender]_vars

\* ------------------------------------- normalize_event and validate_event
\* A decoded object is at hand: the well-formed one, until AnyObject has
\* changed it.
InitValidate ==
    /\ raw = BaseEvent
    /\ evt = BaseEvent
    /\ normalized = FALSE
    /\ vr = NoResult
    /\ vpc = "raw"
    /\ LineageIdle
    /\ IngestOff

\* main line 150: json.loads returns any object; here one more key of it
\* carries another value or is missing
AnyObject ==
    /\ vpc = "raw"
    /\ Cardinality(Defects(raw)) < MaxDefects
    /\ \E k \in Fields \ Defects(raw) : \E v \in FieldVals(k) \ {BaseEvent[k]} :
          /\ raw' = [raw EXCEPT ![k] = v]
          /\ evt' = raw'
    /\ UNCHANGED <<normalized, vr, vpc>>
    /\ UNCHANGED notValidator

\* main line 158: evt = normalize_event(raw); the clock decides the fraction
Normalize ==
    /\ vpc = "raw"
    /\ \E frac \in BOOLEAN : evt' = normalize_event(raw, frac)
    /\ normalized' = TRUE
    /\ vpc' = "norm"
    /\ UNCHANGED <<raw, vr>>
    /\ UNCHANGED notValidator

\* validate_event(evt), on the object as decoded or as normalised
Validate ==
    /\ vpc \in {"raw", "norm"}
    /\ vr' = validate_event(evt)
    /\ vpc' = "done"
    /\ UNCHANGED <<raw, evt, normalized>>
    /\ UNCHANGED notValidator

NextValidate == AnyObject \/ Normalize \/ Validate

SpecValidate == InitValidate /\ [][NextValidate]_vars

\* ------------------------------------------------------ the ingestion loop
\* The objects the sensor sends in this model: scenario A of the specification
\* (an exec event without ts and source), a complete file_open event, an
\* object with event_type alone, and complete events with one bad field.
SampleEvents ==
    {[BaseEvent EXCEPT !["event_type"] = Str(<<"exec">>), !["ts"] = Absent, !["source"] = Absent,
                       !["tags"] = Absent, !["meta"] = Absent],
     BaseEvent,
     [k \in Fields |-> IF k = "event_type" THEN Str(<<"file_open">>) ELSE Absent],
     [BaseEvent EXCEPT !["event_type"] = ListV],
     [BaseEvent EXCEPT !["event_type"] = Str(<<"x">>)],
     [BaseEvent EXCEPT !["pid"] = BoolV(TRUE)],
     [BaseEvent EXCEPT !["pid"] = IntV(-1)],
     [BaseEvent EXCEPT !["source"] = Str(<<"x">>), !["extra"] = Str(<<"x">>)],
     [BaseEvent EXCEPT !["ts"] = Absent, !["source"] = Str(<<" ">>), !["pid"] = IntV(2),
                       !["extra"] = Str(<<"x">>)]}

\* A line of stdin after strip(): empty, not JSON, JSON but not an object, or
\* an object.
Lines ==
    {BlankLine,
     [kind |-> "badjson", obj |-> Unset],
     [kind |-> "nonobject", obj |-> Unset]}
    \cup {[kind |-> "object", obj |-> e] : e \in SampleEvents}

InitIngest ==
    /\ IngestIdle
    /\ ValidatorIdle
    /\ LineageIdle

\* lines 128..141: the output file is opened for appending
OpenLog ==
    /\ mpc = "start"
    /\ out' = "open"
    /\ mpc' = "read"
    /\ UNCHANGED <<good, bad, log, incidents, line, nread, clock, exitCode>>
    /\ UNCHANGED <<inc_dir, inc_chain, nonblank, accepted, called, exitBy>>
    /\ UNCHANGED <<raw, evt, vr>>
    /\ UNCHANGED notIngest

\* lines 133..135: it cannot be opened
OpenLogFails ==
    /\ mpc = "start"
    /\ exitCode' = 2
    /\ exitBy' = "openfail"
    /\ mpc' = "exited"
    /\ UNCHANGED <<out, good, bad, log, incidents, line, nread, clock>>
    /\ UNCHANGED <<inc_dir, inc_chain, nonblank, accepted, called>>
    /\ UNCHANGED <<raw, evt, vr>>
    /\ UNCHANGED notIngest

\* lines 144..147: the next line is read and stripped; a blank one is skipped
ReadLine ==
    /\ mpc = "read"
    /\ nread < MaxLines
    /\ \E ln \in Lines :
          /\ line' = ln
          /\ mpc' = IF ln.kind = "blank" THEN "read" ELSE "decode"
          /\ nonblank' = IF ln.kind = "blank" THEN nonblank ELSE nonblank + 1
    /\ nread' = nread + 1
    /\ UNCHANGED <<out, good, bad, log, incidents, clock, exitCode>>
    /\ UNCHANGED <<inc_dir, inc_chain, accepted, called, exitBy>>
    /\ UNCHANGED <<raw, evt, vr>>
    /\ UNCHANGED notIngest

\* line 144 at end of stream, then lines 177..181
EndOfStream ==
    /\ mpc = "read"
    /\ out' = "closed"
    /\ exitCode' = 0
    /\ exitBy' = "eos"
    /\ mpc' = "exited"
    /\ UNCHANGED <<good, bad, log, incidents, line, nread, clock>>
    /\ UNCHANGED <<inc_dir, inc_chain, nonblank, accepted, called>>
    /\ UNCHANGED <<raw, evt, vr>>
    /\ UNCHANGED notIngest

\* lines 149..156: json.loads and the isinstance test
Decode ==
    /\ mpc = "decode"
    /\ IF line.kind = "object"
       THEN /\ raw' = line.obj
            /\ mpc' = "validate"
            /\ bad' = bad
       ELSE /\ bad' = bad + 1
            /\ mpc' = "read"
            /\ raw' = raw
    /\ UNCHANGED <<out, good, log, incidents, line, nread, clock, exitCode>>
    /\ UNCHANGED <<inc_dir, inc_chain, nonblank, accepted, called, exitBy>>
    /\ UNCHANGED <<evt, vr>>
    /\ UNCHANGED notIngest

\* lines 158..163: normalize, validate, drop on a rejection; an exception
\* raised by validate_event leaves the loop through finally (lines 177..178)
\* and ends the process with a traceback
NormalizeValidate ==
    /\ mpc = "validate"
    /\ \E frac \in BOOLEAN : evt' = normalize_event(raw, frac)
    /\ vr' = validate_event(evt')
    /\ CASE vr'.kind = "ok" -> /\ mpc' = "write"
                               /\ accepted' = Append(accepted, [n |-> nread, evt |-> evt'])
                               /\ UNCHANGED <<bad, out, exitCode, exitBy>>
         [] vr'.kind = "rejected" -> /\ bad' = bad + 1
                                     /\ mpc' = "read"
                                     /\ UNCHANGED <<out, exitCode, accepted, exitBy>>
         [] OTHER -> /\ out' = "closed"
                     /\ exitCode' = 1
                     /\ exitBy' = "validate"
                     /\ mpc' = "exited"
                     /\ UNCHANGED <<bad, accepted>>
    /\ UNCHANGED <<good, log, incidents, line, nread, clock>>
    /\ UNCHANGED <<inc_dir, inc_chain, nonblank, called>>
    /\ UNCHANGED raw
    /\ UNCHANGED notIngest

\* lines 165..166: the event is appended to the output file and flushed
\* (faulty variant: written once more)
WriteLogTwice ==
    /\ mpc = "write"
    /\ log' = log \o <<evt, evt>>
    /\ mpc' = "count"
    /\ UNCHANGED <<out, good, bad, incidents, line, nread, clock, exitCode>>
    /\ UNCHANGED <<inc_dir, inc_chain, nonblank, accepted, called, exitBy>>
    /\ UNCHANGED <<raw, evt, vr>>
    /\ UNCHANGED notIngest
WriteLog ==
    /\ mpc = "write"
    /\ log' = Append(log, evt)
    /\ mpc' = "count"
    /\ UNCHANGED <<out, good, bad, incidents, line, nread, clock, exitCode>>
    /\ UNCHANGED <<inc_dir, inc_chain, nonblank, accepted, called, exitBy>>
    /\ UNCHANGED <<raw, evt, vr>>
    /\ UNCHANGED notIngest

\* line 170: the test that sends an event to create_incident (faulty variant:
\* every accepted event is sent)
IsFileOpenAlways(e) == TRUE
IsFileOpen(e) == e["event_type"] = Str(<<"file_open">>)

\* lines 167..170
CountAccepted ==
    /\ mpc = "count"
    /\ good' = good + 1
    /\ mpc' = IF IsFileOpen(evt) THEN "incident" ELSE "read"
    /\ UNCHANGED <<out, bad, log, incidents, line, nread, clock, exitCode>>
    /\ UNCHANGED <<inc_dir, inc_chain, nonblank, accepted, called, exitBy>>
    /\ UNCHANGED <<raw, evt, vr>>
    /\ UNCHANGED notIngest

\* ------------------------------------------ incidents.py: create_incident
\* Path.write_text opens the file for writing, which empties it, writes the
\* text and closes it: the file holds the whole text, or what got through ("cut")
\* when the write raised (faulty variant: a file that is there is kept).
WrittenKeepFirst(old, data) == IF old.st = "none" THEN [st |-> "full", data |-> data] ELSE old
Written(old, data) == [st |-> "full", data |-> data]
CutFile == [st |-> "cut", data |-> Unset]

\* line 31: int(evt.get("pid", 0)) of a validated event (int(True) is 1)
PidOf(e) == IF Has(e, "pid") THEN e["pid"].n ELSE 0

\* line 32: what build_lineage(pid) hands back to create_incident, the walk
\* itself being the subject of SpecLineage: no record (a pid <= 0, or the
\* process is gone already), the process alone, or the process under one
\* ancestor
IncidentNode(pid, ppid) == FullNode(pid, ppid, 0, <<"x">>, <<>>, <<>>)
LineageOutcomes(pid) ==
    IF pid <= 0 THEN {<<>>}
    ELSE {<<>>, <<IncidentNode(pid, 0)>>, <<IncidentNode(pid + 1, 0), IncidentNode(pid, pid + 1)>>}

\* main line 171 and create_incident lines 20..22: the call, the name of the
\* directory taken from the clock, mkdir(parents=True, exist_ok=True)
CreateIncident ==
    /\ mpc = "incident"
    /\ called' = Append(called, [n |-> nread, evt |-> evt, dir |-> clock])
    /\ inc_dir' = clock
    /\ incidents' = [incidents EXCEPT ![clock].made = TRUE]
    /\ mpc' = "inc_json"
    /\ UNCHANGED <<out, good, bad, log, line, nread, clock, exitCode>>
    /\ UNCHANGED <<inc_chain, nonblank, accepted, exitBy>>
    /\ UNCHANGED <<raw, evt, vr>>
    /\ UNCHANGED notIngest

\* lines 25..28: incident.json
WriteIncidentJson ==
    /\ mpc = "inc_json"
    /\ incidents' = [incidents EXCEPT ![inc_dir].json = Written(@, evt)]
    /\ mpc' = "inc_lineage"
    /\ UNCHANGED <<out, good, bad, log, line, nread, clock, exitCode>>
    /\ UNCHANGED <<inc_dir, inc_chain, nonblank, accepted, called, exitBy>>
    /\ UNCHANGED <<raw, evt, vr>>
    /\ UNCHANGED notIngest

\* lines 31..32: the lineage of the event's pid
BuildIncidentLineage ==
    /\ mpc = "inc_lineage"
    /\ inc_chain' \in LineageOutcomes(PidOf(evt))
    /\ mpc' = "inc_txt"
    /\ UNCHANGED <<out, good, bad, log, incidents, line, nread, clock, exitCode>>
    /\ UNCHANGED <<inc_dir, nonblank, accepted, called, exitBy>>
    /\ UNCHANGED <<raw, evt, vr>>
    /\ UNCHANGED notIngest

\* lines 34..37: lineage.txt (faulty variant: back to the loop with
\* lineage.dot still to be written)
WriteLineageTxtReturns ==
    /\ mpc = "inc_txt"
    /\ incidents' = [incidents EXCEPT ![inc_dir].txt = Written(@, lineage_to_text(inc_chain))]
    /\ mpc' = "read"
    /\ UNCHANGED <<out, good, bad, log, line, nread, clock, exitCode>>
    /\ UNCHANGED <<inc_dir, inc_chain, nonblank, accepted, called, exitBy>>
    /\ UNCHANGED <<raw, evt, vr>>
    /\ UNCHANGED notIngest
WriteLineageTxt ==
    /\ mpc = "inc_txt"
    /\ incidents' = [incidents EXCEPT ![inc_dir].txt = Written(@, lineage_to_text(inc_chain))]
    /\ mpc' = "inc_dot"
    /\ UNCHANGED <<out, good, bad, log, line, nread, clock, exitCode>>
    /\ UNCHANGED <<inc_dir, inc_chain, nonblank, accepted, called, exitBy>>
    /\ UNCHANGED <<raw, evt, vr>>
    /\ UNCHANGED notIngest

\* lines 38..43 and main line 172: lineage.dot, and back to the loop
WriteLineageDot ==
    /\ mpc = "inc_dot"
    /\ incidents' = [incidents EXCEPT ![inc_dir].dot = Written(@, lineage_to_dot(inc_chain))]
    /\ mpc' = "read"
    /\ UNCHANGED <<out, good, bad, log, line, nread, clock, exitCode>>
    /\ UNCHANGED <<inc_dir, inc_chain, nonblank, accepted, called, exitBy>>
    /\ UNCHANGED <<raw, evt, vr>>
    /\ UNCHANGED notIngest

\* create_incident raises: mkdir fails (nothing is made), or one of the three
\* write_text calls fails (the file is left as it was when it could not be
\* opened, cut short when the write failed). Nothing is rolled back; the
\* exception leaves the loop through finally (lines 177..178).
CreateIncidentFails ==
    /\ CASE mpc = "incident" ->
              /\ called' = Append(called, [n |-> nread, evt |-> evt, dir |-> clock])
              /\ inc_dir' = clock
              /\ UNCHANGED incidents
         [] mpc = "inc_json" ->
              /\ \E f \in {incidents[inc_dir].json, CutFile} :
                    incidents' = [incidents EXCEPT ![inc_dir].json = f]
              /\ UNCHANGED <<called, inc_dir>>
         [] mpc = "inc_txt" ->
              /\ \E f \in {incidents[inc_dir].txt, CutFile} :
                    incidents' = [incidents EXCEPT ![inc_dir].txt = f]
              /\ UNCHANGED <<called, inc_dir>>
         [] mpc = "inc_dot" ->
              /\ \E f \in {incidents[inc_dir].dot, CutFile} :
                    incidents' = [incidents EXCEPT ![inc_dir].dot = f]
              /\ UNCHANGED <<called, inc_dir>>
         [] OTHER -> FALSE
    /\ out' = "closed"
    /\ exitCode' = 1
    /\ exitBy' = "incident"
    /\ mpc' = "exited"
    /\ UNCHANGED <<good, bad, log, line, nread, clock>>
    /\ UNCHANGED <<inc_chain, nonblank, accepted>>
    /\ UNCHANGED <<raw, evt, vr>>
    /\ UNCHANGED notIngest

\* The places of the loop body (lines 144..172, create_incident included)
\* where KeyboardInterrupt can be raised
InLoop ==
    {"read", "decode", "validate", "write", "count",
     "incident", "inc_json", "inc_lineage", "inc_txt", "inc_dot"}

\* lines 175..181: KeyboardInterrupt anywhere in the loop (faulty variant: the
\* handle is left open)
InterruptNoClose ==
    /\ mpc \in InLoop
    /\ exitCode' = 0
    /\ exitBy' = "interrupt"
    /\ mpc' = "exited"
    /\ UNCHANGED <<out, good, bad, log, incidents, line, nread, clock>>
    /\ UNCHANGED <<inc_dir, inc_chain, nonblank, accepted, called>>
    /\ UNCHANGED <<raw, evt, vr>>
    /\ UNCHANGED notIngest
Interrupt ==
    /\ mpc \in InLoop
    /\ out' = "closed"
    /\ exitCode' = 0
    /\ exitBy' = "interrupt"
    /\ mpc' = "exited"
    /\ UNCHANGED <<good, bad, log, incidents, line, nread, clock>>
    /\ UNCHANGED <<inc_dir, inc_chain, nonblank, accepted, called>>
    /\ UNCHANGED <<raw, evt, vr>>
    /\ UNCHANGED notIngest

\* a second of local time passes (incidents line 20 reads the clock)
Tick ==
    /\ mpc \notin {"start", "exited"}
    /\ clock < MaxClock
    /\ clock' = clock + 1
    /\ UNCHANGED <<mpc, out, good, bad, log, incidents, line, nread, exitCode>>
    /\ UNCHANGED <<inc_dir, inc_chain, nonblank, accepted, called, exitBy>>
    /\ UNCHANGED <<raw, evt, vr>>
    /\ UNCHANGED notIngest

NextIngest ==
    \/ OpenLog \/ OpenLogFails \/ ReadLine \/ EndOfStream \/ Decode \/ NormalizeValidate
    \/ WriteLog \/ CountAccepted
    \/ CreateIncident \/ WriteIncidentJson \/ BuildIncidentLineage \/ WriteLineageTxt
    \/ WriteLineageDot \/ CreateIncidentFails
    \/ Interrupt \/ Tick

SpecIngest == InitIngest /\ [][NextIngest]_vars

\* ------------------------------------------------- claims on build_lineage
ChainPids == {chain[i].pid : i \in 1..Len(chain)}

\* The process table no longer agrees with what record i of the chain holds.
Stale(i) == ptab[chain[i].pid] # [present |-> TRUE, ppid |-> chain[i].ppid]

\* C1: for every starting pid, process table (changing between reads or not)
\* and max_depth, the chain never holds more than max_depth records, and so
\* neither does the returned one.
C1_ChainAtMostMaxDepth == Len(chain) <= max_depth

\* C1 witness: a walk cut by the depth bound, with a parent still to visit.
C1_Witness ==
    /\ lpc = "done"
    /\ max_depth >= 2
    /\ Len(chain) = max_depth
    /\ depth = max_depth
    /\ ~IsRoot(chain[1])

\* C2: in the returned chain every adjacent pair has chain[i].pid =
\* chain[i+1].ppid, whatever happened to the process table between the reads.
C2_AdjacentLinked ==
    lpc = "done" => \A i \in 1..(Len(chain) - 1) : chain[i].pid = chain[i + 1].ppid

\* C2 witness: a returned chain of three records, one of which was re-parented
\* or exited between the reads of the call.
C2_Witness ==
    /\ lpc = "done"
    /\ Len(chain) >= 3
    /\ \E i \in 2..Len(chain) : Stale(i)

\* C3: build_lineage terminates on every process table, cyclic and
\* self-parented ones included; no pid is looked up twice in a call and no pid
\* occurs twice in the chain.
C3_TerminatesReadsOnce ==
    /\ <>(lpc = "done")
    /\ [](\A i, j \in 1..Len(reads) : i # j => reads[i] # reads[j])
    /\ [](\A i, j \in 1..Len(chain) : i # j => chain[i].pid # chain[j].pid)

\* C3 witness: a walk that came back to a pid already visited (a cycle of two
\* or more processes) with depth to spare, and returned.
C3_Witness ==
    /\ lpc = "done"
    /\ Len(chain) >= 2
    /\ Len(chain) < max_depth
    /\ ~IsRoot(chain[1])
    /\ chain[1].ppid \in ChainPids

\* C4: for a starting pid of 0 or below the returned chain is empty and no
\* process-table entry was looked up.
C4_NonPositivePidEmpty ==
    startPid <= 0 => (chain = <<>> /\ reads = <<>>)

\* C4 witness: a call with a non-positive pid returned, with processes present
\* and depth allowed.
C4_Witness ==
    /\ lpc = "done"
    /\ startPid <= 0
    /\ max_depth >= 1
    /\ \E p \in Pids : ptab[p].present

\* C5: a returned non-empty chain ends with the record of the starting pid and
\* lists the records in the reverse of the order they were visited (most
\* distant ancestor first), also when the depth bound cut the walk.
C5_TargetLastOldestFirst ==
    (lpc = "done" /\ chain # <<>>) =>
        /\ chain[Len(chain)].pid = startPid
        /\ Len(chain) <= Len(reads)
        /\ \A i \in 1..Len(chain) : chain[i].pid = reads[Len(chain) + 1 - i]

\* C5 witness: a returned chain cut at the depth bound whose oldest record has
\* a live parent that was never visited.
C5_Witness ==
    /\ lpc = "done"
    /\ Len(chain) = max_depth
    /\ Len(chain) >= 2
    /\ chain[1].ppid > 0
    /\ chain[1].ppid \notin seen
    /\ ptab[chain[1].ppid].present

\* --------------------------- claims on normalize_event and validate_event
\* What the schema asks of a value (section 4.4 and 6 of the specification).
SchemaInt(x) == x.t = "int" /\ x.n >= 0
SchemaText(x) == x.t = "str" /\ \E i \in 1..Len(x.s) : x.s[i] # " "
MissingOrBlank(x) == x.t = "absent" \/ (x.t = "str" /\ \A i \in 1..Len(x.s) : x.s[i] = " ")
SchemaTs(x) ==
    /\ x.t = "str"
    /\ \E zone \in {<<>>, <<"Z">>, <<"+00:00">>}, fr \in {<<>>, <<"FRAC">>} : x.s = <<"DT">> \o fr \o zone
UtcInstant(x) == x.t = "str" /\ x.s \in {<<"DT", "Z">>, <<"DT", "FRAC", "Z">>}

\* Everything but ts and source is well-formed.
OthersWellFormed(e) ==
    /\ e["event_type"] \in {Str(<<"file_open">>), Str(<<"exec">>)}
    /\ \A k \in {"pid", "ppid", "uid"} : SchemaInt(e[k])
    /\ \A k \in {"comm", "exe", "target"} : SchemaText(e[k])
    /\ e["tags"].t \in {"absent", "list"}
    /\ e["meta"].t \in {"absent", "dict"}

\* C6's case: ts or source missing or blank (the other one, if given, is
\* well-formed) and all the rest well-formed.
C6_Case ==
    /\ OthersWellFormed(raw)
    /\ MissingOrBlank(raw["ts"]) \/ MissingOrBlank(raw["source"])
    /\ MissingOrBlank(raw["ts"]) \/ SchemaTs(raw["ts"])
    /\ MissingOrBlank(raw["source"]) \/ raw["source"] \in {Str(<<"stdin">>), Str(<<"ebpf">>)}

\* C6: for a raw event whose ts or source is missing or blank and whose other
\* fields are well-formed, validate_event(normalize_event(raw)) is Ok, a
\* missing or blank ts has become a UTC instant and a missing or blank source
\* has become stdin.
C6_NormalizedValidates ==
    (vpc = "done" /\ normalized /\ C6_Case) =>
        /\ vr = Ok
        /\ MissingOrBlank(raw["ts"]) => UtcInstant(evt["ts"])
        /\ MissingOrBlank(raw["source"]) => evt["source"] = Str(<<"stdin">>)

\* C6 witness: a blank ts and no source at all, normalised and validated.
C6_Witness ==
    /\ vpc = "done"
    /\ normalized
    /\ C6_Case
    /\ raw["ts"] = Str(<<" ">>)
    /\ ~Has(raw, "source")

\* C7 (as claimed): validate_event never accepts an event whose pid, ppid or
\* uid is negative or is not an integer, whatever JSON type it has.
C7_NeverAcceptsNonInteger ==
    (vpc = "done" /\ \E k \in {"pid", "ppid", "uid"} : ~SchemaInt(evt[k])) => vr.kind # "ok"

\* C8 (as claimed): for an event with every required field and a parseable ts
\* whose event_type is any value outside {file_open, exec}, validate_event
\* returns a rejection whose reason mentions event_type; it does not raise.
C8_RejectsBadEventType ==
    (/\ vpc = "done"
     /\ \A i \in 1..Len(required) : Has(evt, required[i])
     /\ parse_iso8601(evt["ts"])
     /\ evt["event_type"] \notin {Str(<<"file_open">>), Str(<<"exec">>)})
    => (vr.kind = "rejected" /\ vr.field = "event_type")

\* The checks in the order C9 gives them, each with the reason it produces.
CheckOrder ==
    [i \in 1..Len(required) |-> Rejected("Missing required field", required[i])]
    \o <<Rejected("Invalid", "ts"), Rejected("Invalid", "event_type"),
         Rejected("Invalid", "pid"), Rejected("Invalid", "ppid"), Rejected("Invalid", "uid"),
         Rejected("Invalid", "comm"), Rejected("Invalid", "exe"), Rejected("Invalid", "target"),
         Rejected("Invalid", "source"), Rejected("Invalid", "tags"), Rejected("Invalid", "meta")>>

\* Whether event e fails the check that produces reason c.
CheckFails(e, c) ==
    IF c.what = "Missing required field" THEN ~Has(e, c.field)
    ELSE CASE c.field = "ts" -> ~parse_iso8601(e["ts"])
           [] c.field = "event_type" -> e["event_type"] \notin {Str(<<"file_open">>), Str(<<"exec">>)}
           [] c.field \in {"pid", "ppid", "uid"} -> ~is_int_like(e[c.field])
           [] c.field \in {"comm", "exe", "target"} -> ~is_non_empty_str(e[c.field])
           [] c.field = "source" -> e["source"] \notin {Str(<<"stdin">>), Str(<<"ebpf">>)}
           [] c.field = "tags" -> e["tags"].t \notin {"absent", "list"}
           [] c.field = "meta" -> e["meta"].t \notin {"absent", "dict"}

\* C9 (as claimed): validate_event reports the reason of the first check, in
\* the fixed order, that the event fails (and Ok when it fails none).
C9_FirstFailingCheckReported ==
    vpc = "done" =>
        LET failing == {i \in 1..Len(CheckOrder) : CheckFails(evt, CheckOrder[i])} IN
        IF failing = {} THEN vr = Ok
        ELSE vr = CheckOrder[CHOOSE i \in failing : \A j \in failing : i <= j]

\* ------------------------------------------------ claims on the ingestion loop
\* The event meets the schema of sections 4.4 and 6 of the specification.
SchemaValid(e) ==
    /\ \A i \in 1..Len(required) : Has(e, required[i])
    /\ SchemaTs(e["ts"])
    /\ e["source"] \in {Str(<<"stdin">>), Str(<<"ebpf">>)}
    /\ OthersWellFormed(e)

\* C10 (as claimed): handling a non-blank line that is not JSON, is not an
\* object, or fails validation adds exactly one to dropped and leaves the
\* accepted counter, the log and the incident directories as they were.
C10_BadLineDroppedOnce ==
    [][(\/ Decode /\ line.kind # "object"
        \/ NormalizeValidate /\ ~SchemaValid(evt'))
       => (bad' = bad + 1 /\ good' = good /\ log' = log /\ incidents' = incidents)]_vars

\* On the three paths on which the loop itself drops a line (lines 153..156
\* and 160..163) the effect is the claimed one.
DropPathsCountOnce ==
    [][(\/ Decode /\ line.kind # "object"
        \/ NormalizeValidate /\ vr'.kind = "rejected")
       => (bad' = bad + 1 /\ good' = good /\ log' = log /\ incidents' = incidents)]_vars

\* ------------------------------------------- claims on the ingestion loop
\* C11 (as claimed): whatever JSON values the fields of the input lines carry,
\* validation never raises, each non-blank line has been counted once as
\* accepted or dropped when the loop goes on to the next line, and at end of
\* stream accepted + dropped is the number of non-blank lines read.
C11_EveryLineCountedOnce ==
    /\ exitBy # "validate"
    /\ mpc = "read" => good + bad = nonblank
    /\ exitBy = "eos" => good + bad = nonblank

\* Short of the exception, the count is the claimed one: it holds whenever the
\* loop is at its head and when it ends with the stream.
CountedWhileRunning ==
    /\ mpc = "read" => good + bad = nonblank
    /\ exitBy = "eos" => good + bad = nonblank

\* The places of create_incident after the call.
InCreate == {"inc_json", "inc_lineage", "inc_txt", "inc_dot"}

\* An event whose event_type is the string file_open.
FileOpenEvent(e) == e["event_type"].t = "str" /\ e["event_type"].s = <<"file_open">>

\* The lines accepted so far, the lines create_incident was called for.
AcceptedLines == {accepted[j].n : j \in 1..Len(accepted)}
CalledLines == {called[i].n : i \in 1..Len(called)}

\* C12: create_incident is called for a line only if the line passed
\* validation and its event_type is file_open (so never for an accepted exec
\* event nor for a dropped line), at most once per line, and it has been
\* called for every accepted file_open line once the loop is back at its head
\* or has ended with the stream.
C12_IncidentIffAcceptedFileOpen ==
    /\ \A i \in 1..Len(called) :
          /\ FileOpenEvent(called[i].evt)
          /\ \E j \in 1..Len(accepted) : accepted[j] = [n |-> called[i].n, evt |-> called[i].evt]
          /\ \A k \in 1..Len(called) : called[k].n = called[i].n => k = i
    /\ (mpc = "read" \/ exitBy = "eos") =>
          \A j \in 1..Len(accepted) : FileOpenEvent(accepted[j].evt) => accepted[j].n \in CalledLines

\* C12 witness: two lines read, an exec event and a file_open event, both
\* accepted, one create_incident call (for the file_open line), the loop back
\* at its head.
C12_Witness ==
    /\ mpc = "read"
    /\ Len(accepted) = 2
    /\ Len(called) = 1
    /\ \E j \in 1..2 : ~FileOpenEvent(accepted[j].evt) /\ accepted[j].n \notin CalledLines

\* C13: once the output file has been opened, main() never ends with the
\* handle open, whether by end of stream, by KeyboardInterrupt anywhere in the
\* loop body or by an exception of create_incident; end of stream and
\* interruption end with exit status 0.
C13_ClosedOnEveryExit ==
    /\ (mpc = "exited" /\ exitBy # "openfail") => out = "closed"
    /\ exitBy \in {"eos", "interrupt"} => exitCode = 0

\* C13 witness: an interruption in the middle of create_incident, after
\* incident.json and before lineage.txt.
C13_Witness ==
    /\ mpc = "exited"
    /\ exitBy = "interrupt"
    /\ out = "closed"
    /\ called # <<>>
    /\ incidents[inc_dir].json.st = "full"
    /\ incidents[inc_dir].txt.st = "none"

\* C14: while the loop runs the log holds as many lines as the accepted
\* counter says, one more between the write and the increment only; the log
\* is the sequence of the accepted events, each once, in the order their lines
\* were read (the last accepted one is still to be written between validation
\* and the write). After an interruption the count may be the one behind.
C14_LogMatchesAccepted ==
    /\ CASE mpc = "count" -> Len(log) = good + 1
         [] mpc = "exited" -> Len(log) \in {good, good + 1}
         [] OTHER -> Len(log) = good
    /\ CASE mpc = "write" -> Len(accepted) = Len(log) + 1
         [] mpc = "exited" -> Len(accepted) \in {Len(log), Len(log) + 1}
         [] OTHER -> Len(accepted) = Len(log)
    /\ \A j \in 1..Len(log) : log[j] = accepted[j].evt
    /\ \A j, k \in 1..Len(accepted) : j < k => accepted[j].n < accepted[k].n

\* C14 witness: two different events accepted, logged and counted.
C14_Witness ==
    /\ mpc = "read"
    /\ good = 2
    /\ Len(log) = 2
    /\ log[1] # log[2]
    /\ FileOpenEvent(log[1])
    /\ ~FileOpenEvent(log[2])

\* The three files of directory d are all written in full.
Complete(d) ==
    /\ incidents[d].made
    /\ incidents[d].json.st = "full"
    /\ incidents[d].txt.st = "full"
    /\ incidents[d].dot.st = "full"

\* C15: whenever create_incident has been called for an event, that event is
\* in the log already, at the place of its line (so it stays there when the
\* creation is interrupted or fails), during the creation the last log line is
\* the event at hand, and the next line is read only when the three files of
\* the last creation are written.
C15_LoggedThenIncidentThenNextLine ==
    /\ [](\A i \in 1..Len(called) :
             \E j \in 1..Len(log) : accepted[j].n = called[i].n /\ log[j] = called[i].evt)
    /\ []((mpc \in InCreate \/ mpc = "incident") => (log # <<>> /\ log[Len(log)] = evt))
    /\ [][(nread' # nread /\ called # <<>>) => Complete(called[Len(called)].dir)]_vars

\* C15 witness: create_incident failed while writing lineage.txt; the event
\* is in the log.
C15_Witness ==
    /\ mpc = "exited"
    /\ exitBy = "incident"
    /\ Len(called) = 1
    /\ incidents[inc_dir].json.st = "full"
    /\ incidents[inc_dir].txt.st = "cut"
    /\ log = <<called[1].evt>>

IsNodeStmt(l) == l.kind = "node"
IsEdgeStmt(l) == l.kind = "edge"
NodeStmts(d) == SelectSeq(d, IsNodeStmt)
EdgeStmts(d) == SelectSeq(d, IsEdgeStmt)

\* C17: for a chain of n records lineage_to_dot gives n node statements, the
\* i-th for chain[i].pid, and max(n - 1, 0) edge statements, the i-th from
\* chain[i].pid to chain[i + 1].pid (parent to child), between the three
\* header lines and the footer; so the header and footer alone for n = 0 and
\* one node and no edge for n = 1.
C17_DotNodesAndEdges ==
    rendered # Unset =>
        LET d == rendered.dot
            n == Len(chain)
        IN /\ Len(NodeStmts(d)) = n
           /\ \A i \in 1..n : NodeStmts(d)[i].id = ToString(chain[i].pid)
           /\ Len(EdgeStmts(d)) = IF n >= 1 THEN n - 1 ELSE 0
           /\ \A i \in 1..(n - 1) :
                 /\ EdgeStmts(d)[i].id = ToString(chain[i].pid)
                 /\ EdgeStmts(d)[i].to = ToString(chain[i + 1].pid)
           /\ Len(d) = 4 + n + (IF n >= 1 THEN n - 1 ELSE 0)
           /\ \A i \in {1, 2, 3, Len(d)} : d[i].kind = "line"

\* C17 witness: a rendered chain of two records of different pids.
C17_Witness ==
    /\ rendered # Unset
    /\ Len(chain) = 2
    /\ chain[1].pid # chain[2].pid
    /\ Len(EdgeStmts(rendered.dot)) = 1

\* C18 (as claimed): whatever characters comm and cmdline hold, no label of a
\* node statement holds a double quote.
C18_LabelHasNoDoubleQuote ==
    rendered # Unset =>
        \A i \in 1..Len(rendered.dot) :
            \A j \in 1..Len(rendered.dot[i].label) : rendered.dot[i].label[j] # "\""

\* The part of the label taken from cmdline (or from comm in its place) holds
\* no double quote: a record whose comm has none gets a clean label.
CleanCommCleanLabel ==
    rendered # Unset =>
        \A i \in 1..Len(chain) :
            (\A j \in 1..Len(chain[i].comm) : chain[i].comm[j] # "\"") =>
                \A j \in 1..Len(NodeStmts(rendered.dot)[i].label) :
                    NodeStmts(rendered.dot)[i].label[j] # "\""

\* ------------------------------------------- claims on incident directories
\* C19: when the last two create_incident calls fell into the same second,
\* and so into the same directory, and the loop is back at its head, the
\* directory holds the event of the second call as incident.json and the
\* renderings of the second call's chain as lineage.txt and lineage.dot.
C19_SameSecondLastWriterWins ==
    (/\ mpc = "read"
     /\ Len(called) >= 2
     /\ called[Len(called) - 1].dir = called[Len(called)].dir) =>
        LET last == called[Len(called)] IN
        /\ incidents[last.dir].made
        /\ incidents[last.dir].json = [st |-> "full", data |-> last.evt]
        /\ incidents[last.dir].txt = [st |-> "full", data |-> lineage_to_text(inc_chain)]
        /\ incidents[last.dir].dot = [st |-> "full", data |-> lineage_to_dot(inc_chain)]

\* C19 witness: two different file_open events in the same second, the
\* second creation through.
C19_Witness ==
    /\ mpc = "read"
    /\ Len(called) = 2
    /\ called[1].dir = called[2].dir
    /\ called[1].evt # called[2].evt
    /\ inc_chain # <<>>
    /\ incidents[called[2].dir].json.data = called[2].evt

\* ------------------------------------------ build_lineage never stops early
\* C20: a returned chain that is not empty and is shorter than max_depth ends
\* (at its oldest record) for a cause: the record's ppid is 0 or its own pid,
\* or the parent was looked up and was not in the process table, or the
\* parent's pid is in the chain already.
C20_StopsOnlyForCause ==
    (lpc = "done" /\ Len(chain) >= 1 /\ Len(chain) < max_depth) =>
        \/ chain[1].ppid = 0
        \/ chain[1].ppid = chain[1].pid
        \/ Len(reads) = Len(chain) + 1 /\ reads[Len(reads)] = chain[1].ppid
        \/ chain[1].ppid \in ChainPids

\* C20 witness: a walk of two records that ended because the parent of the
\* oldest one was not in the process table.
C20_Witness ==
    /\ lpc = "done"
    /\ Len(chain) = 2
    /\ max_depth > 2
    /\ chain[1].ppid > 0
    /\ chain[1].ppid \notin ChainPids
    /\ reads[Len(reads)] = chain[1].ppid
    /\ Len(reads) = 3

====
